---- MODULE Spec2Model ----
(***************************************************************************)
(* PCG32 (XSH-RR 64/32) as implemented in MC_Random_Walks, and the         *)
(* seed generator / sample generator pair built from it.                   *)
(*                                                                         *)
(* TLC's integers are 32 bits wide, so a uint64_t is a little-endian       *)
(* sequence of 8 bytes and a uint32_t one of 4 bytes; every arithmetic     *)
(* operator below wraps modulo 2^(8 * Len), as the C unsigned types do.    *)
(***************************************************************************)
EXTENDS Integers, Sequences, FiniteSets, TLC

VARIABLES
    rng_state,            \* seed_generator.c: the seed generator ("master")
    pcg32_random_state,   \* pcg32.c: the sample generator ("worker")
    mseed,                \* arguments of the last seedgen_init, or <<>>
    wseed,                \* arguments of the last myrand_init, or <<>>
    wreseeded,            \* the last myrand_init overwrote a seeded generator
    mouts,                \* generate_seed results since the last seedgen_init
    mstates,              \* rng_state.state at the entry of each of those calls
    wouts,                \* pcg32_random_r results of myrand since myrand_init
    mcalls,               \* pcg32_random calls of the last master operation
    wcalls,               \* pcg32_random_r calls of the last worker operation
    rand,                 \* the last value returned by myrand, as num / den
    inst,                 \* two pcg32_random_t objects used through the _r API
    iseed,                \* per object: arguments of its last pcg32_srandom_r
    ireseeded,            \* per object: that call overwrote a seeded object
    iouts,                \* per object: pcg32_random_r results since then
    istates,              \* per object: its state after each of those calls
    prog,                 \* the program whose main is running, or "none"
    pc,                   \* the statement of that main to execute next
    args,                 \* what the program was given (argv or stdin)
    loc,                  \* the variables of main (and the file-scope scalars)
    lat,                  \* diff_coef.c: the lattice arrays
    hist,                 \* what main has done so far (calls made, indices used)
    lcg                   \* a generator with a state of PeriodBits bits

vars == <<rng_state, pcg32_random_state, mseed, wseed, wreseeded, mouts, mstates,
          wouts, mcalls, wcalls, rand, inst, iseed, ireseeded, iouts, istates,
          prog, pc, args, loc, lat, hist, lcg>>

---------------------------------------------------------------------------
(* Unsigned fixed-width arithmetic.                                        *)

\* F applied to the values of its arguments: TLC evaluates an operator's
\* argument again at every use, so each operator below takes the value of
\* an argument once, here, and computes on the value.
Strict1(F(_), x) == CHOOSE r \in {F(a) : a \in {x}} : TRUE

Strict2(F(_, _), x, y) == CHOOSE r \in {F(a, b) : a \in {x}, b \in {y}} : TRUE

\* The integer v (0 <= v < 2^31) as an n-byte unsigned value.
FromNat(v, n) ==
    [i \in 1..n |-> IF i > 4 THEN 0 ELSE (v \div (256 ^ (i - 1))) % 256]

\* A value written most significant byte first, as in a hexadecimal literal.
Hex(bytes) == [i \in 1..Len(bytes) |-> bytes[Len(bytes) + 1 - i]]

\* The integer held by a value known to be below 2^31.
ToNat(x) ==
    Strict1(LAMBDA a : a[1] + 256 * a[2] + 65536 * a[3] + 16777216 * a[4], x)

RECURSIVE CarryInto(_, _)
CarryInto(cols, i) ==
    IF i = 1 THEN 0 ELSE (cols[i - 1] + CarryInto(cols, i - 1)) \div 256

\* Column sums to bytes; the carry out of the top byte is dropped (wraparound).
Wrap(cols) ==
    Strict1(LAMBDA c : [i \in 1..Len(c) |-> (c[i] + CarryInto(c, i)) % 256],
            cols)

\* x + y
Add(x, y) ==
    Strict2(LAMBDA a, b : Wrap([i \in 1..Len(a) |-> a[i] + b[i]]), x, y)

RECURSIVE Column(_, _, _, _)
Column(x, y, k, i) ==
    IF i = 0 THEN 0 ELSE x[i] * y[k - i + 1] + Column(x, y, k, i - 1)

\* x * y
Mul(x, y) ==
    Strict2(LAMBDA a, b : Wrap([k \in 1..Len(a) |-> Column(a, b, k, k)]), x, y)

RECURSIVE OrNat(_, _)
OrNat(a, b) ==
    IF a = 0 /\ b = 0 THEN 0
    ELSE (IF a % 2 = 1 \/ b % 2 = 1 THEN 1 ELSE 0) + 2 * OrNat(a \div 2, b \div 2)

RECURSIVE XorNat(_, _)
XorNat(a, b) ==
    IF a = 0 /\ b = 0 THEN 0
    ELSE ((a + b) % 2) + 2 * XorNat(a \div 2, b \div 2)

\* x | y
Or(x, y) ==
    Strict2(LAMBDA a, b : [i \in 1..Len(a) |-> OrNat(a[i], b[i])], x, y)

\* x ^ y
Xor(x, y) ==
    Strict2(LAMBDA a, b : [i \in 1..Len(a) |-> XorNat(a[i], b[i])], x, y)

ByteAt(x, j) == IF j \in 1..Len(x) THEN x[j] ELSE 0

\* x >> k, for 0 <= k < 8 * Len(x)
Shr(x, k) ==
    Strict2(LAMBDA a, n :
                [i \in 1..Len(a) |->
                    (ByteAt(a, i + (n \div 8)) \div (2 ^ (n % 8)))
                    + (ByteAt(a, i + (n \div 8) + 1) % (2 ^ (n % 8)))
                      * (2 ^ (8 - (n % 8)))],
            x, k)

\* x << k, for 0 <= k < 8 * Len(x); the bits shifted out are lost
Shl(x, k) ==
    Strict2(LAMBDA a, n :
                [i \in 1..Len(a) |->
                    ((ByteAt(a, i - (n \div 8)) * (2 ^ (n % 8))) % 256)
                    + (ByteAt(a, i - (n \div 8) - 1) \div (2 ^ (8 - (n % 8))))],
            x, k)

\* (uint32_t) x
U32(x) == Strict1(LAMBDA a : [i \in 1..4 |-> a[i]], x)

\* (uint64_t) x
U64(x) == Strict1(LAMBDA a : [i \in 1..8 |-> ByteAt(a, i)], x)

\* x < y, for values of the same width
RECURSIVE LessFrom(_, _, _)
LessFrom(x, y, i) ==
    IF i = 0 THEN FALSE
    ELSE IF x[i] # y[i] THEN x[i] < y[i]
    ELSE LessFrom(x, y, i - 1)

Less(x, y) == Strict2(LAMBDA a, b : LessFrom(a, b, Len(a)), x, y)

\* A decimal literal, most significant digit first, as a uint64_t.
RECURSIVE Dec(_, _)
Dec(digits, n) ==
    IF n = 0 THEN FromNat(0, 8)
    ELSE Add(Mul(Dec(digits, n - 1), FromNat(10, 8)), FromNat(digits[n], 8))

ULL(digits) == Dec(digits, Len(digits))

---------------------------------------------------------------------------
(* Model bounds.                                                           *)

\* generate_seed calls followed after one seedgen_init (or after start-up)
MaxSeeds == 6

\* myrand calls followed after one myrand_init (or after start-up)
MaxDraws == 6

\* pcg32_random_r calls followed on each object of the pair after a seeding
MaxPairDraws == 2

---------------------------------------------------------------------------
(* The generator.                                                          *)

\* 6364136223846793005ULL
PCG32_MULT == ULL(<<6,3,6,4,1,3,6,2,2,3,8,4,6,7,9,3,0,0,5>>)

\* UINT32_MAX (stdint.h)
UINT32_MAX == Hex(<<\hff, \hff, \hff, \hff>>)

\* static pcg32_random_t rng_state = { 0x853c49e6748fea9bULL, 0xda3e39cb94b95bdbULL }
RNG_STATE_INITIALIZER ==
    [state |-> Hex(<<\h85, \h3c, \h49, \he6, \h74, \h8f, \hea, \h9b>>),
     inc   |-> Hex(<<\hda, \h3e, \h39, \hcb, \h94, \hb9, \h5b, \hdb>>)]

\* pcg32_random_t pcg32_random_state;  (static storage: all zero)
ZERO_INITIALIZED == [state |-> FromNat(0, 8), inc |-> FromNat(0, 8)]

\* Faulty variant: the left-shift amount 32 - rot, not reduced to five bits.
NegNoMask(r) == 32 - r

\* (-rot) & 31 on uint32_t: 2^32 - rot, reduced to its low five bits
NegAnd31(r) == (0 - r) % 32

\* Faulty variant: the first shift by 17 instead of 18.
xorshifted_17(oldstate) == U32(Shr(Xor(Shr(oldstate, 17), oldstate), 27))

\* uint32_t xorshifted = (uint32_t)(((oldstate >> 18u) ^ oldstate) >> 27u)
xorshifted(oldstate) == U32(Shr(Xor(Shr(oldstate, 18), oldstate), 27))

\* uint32_t rot = (uint32_t)(oldstate >> 59u)
rot(oldstate) == ToNat(U32(Shr(oldstate, 59)))

\* return (xorshifted >> rot) | (xorshifted << ((-rot) & 31))
rotated(xs, r) == Or(Shr(xs, r), Shl(xs, NegAnd31(r)))

\* Faulty variant: the new state not stored, the generator stays where it was.
advance_stuck(oldstate, inc) == oldstate

\* Faulty variant: the new state computed in 32 bits.
advance_r_32(oldstate, inc) ==
    U64(U32(Add(Mul(oldstate, PCG32_MULT), Or(inc, FromNat(1, 8)))))

\* rng->state = oldstate * 6364136223846793005ULL + (rng->inc|1)
advance_r(oldstate, inc) ==
    Add(Mul(oldstate, PCG32_MULT), Or(inc, FromNat(1, 8)))

\* rng_state.state = oldstate * 6364136223846793005ULL + rng_state.inc
advance(oldstate, inc) == Add(Mul(oldstate, PCG32_MULT), inc)

\* One call of the generator: the object after it, the value returned, and
\* the values the call computed on the way (kept for the properties).
Call(fn, oldstate, inc, newstate, xs, r) ==
    [rng |-> [state |-> newstate, inc |-> inc],
     ret |-> rotated(xs, r),
     fn |-> fn, old |-> oldstate, inc |-> inc,
     xorshifted |-> xs, rot |-> r, lsh |-> NegAnd31(r)]

\* Faulty variant: the output permutation applied to the new state.
pcg32_random_r_newstate(rng) ==
    Strict1(LAMBDA g : Call("pcg32_random_r", g.state, g.inc,
                            advance_r(g.state, g.inc),
                            xorshifted(advance_r(g.state, g.inc)),
                            rot(advance_r(g.state, g.inc))),
            rng)

\* uint32_t pcg32_random_r(pcg32_random_t* rng)
pcg32_random_r(rng) ==
    Strict1(LAMBDA g : Call("pcg32_random_r", g.state, g.inc,
                            advance_r(g.state, g.inc),
                            xorshifted(g.state), rot(g.state)),
            rng)

\* Faulty variants of the two assignments that open pcg32_srandom_r:
\* the increment left even,
srandom_r_reset_even(rng, initseq) ==
    [state |-> FromNat(0, 8), inc |-> Shl(initseq, 1)]

\* the state not cleared,
srandom_r_reset_keep(rng, initseq) ==
    [state |-> rng.state, inc |-> Or(Shl(initseq, 1), FromNat(1, 8))]

\* the increment OR-ed into the old one (|= for =),
srandom_r_reset_orinc(rng, initseq) ==
    [state |-> FromNat(0, 8),
     inc   |-> Or(rng.inc, Or(Shl(initseq, 1), FromNat(1, 8)))]

\* and initseq not shifted.
srandom_r_reset_noshift(rng, initseq) ==
    [state |-> FromNat(0, 8), inc |-> Or(initseq, FromNat(1, 8))]

\* rng->state = 0U; rng->inc = (initseq << 1u) | 1u
srandom_r_reset(rng, initseq) ==
    [state |-> FromNat(0, 8), inc |-> Or(Shl(initseq, 1), FromNat(1, 8))]

\* rng->state += initstate
srandom_r_add(rng, initstate) ==
    [rng EXCEPT !.state = Add(rng.state, initstate)]

srandom_r_second(c1, c2) == [rng |-> c2.rng, calls |-> <<c1, c2>>]

srandom_r_first(c1, initstate) ==
    srandom_r_second(c1, pcg32_random_r(srandom_r_add(c1.rng, initstate)))

\* void pcg32_srandom_r(pcg32_random_t* rng, uint64_t initstate, uint64_t initseq):
\* the object after the call and the two warm-up calls it made
pcg32_srandom_r(rng, initstate, initseq) ==
    srandom_r_first(pcg32_random_r(srandom_r_reset(rng, initseq)), initstate)

\* seed_generator.c: uint32_t pcg32_random(void), on rng_state
pcg32_random(rs) ==
    Strict1(LAMBDA g : Call("pcg32_random", g.state, g.inc,
                            advance(g.state, g.inc),
                            xorshifted(g.state), rot(g.state)),
            rs)

\* Faulty variant: the increment left even.
srandom_reset_even(rs, initseq) ==
    [state |-> FromNat(0, 8), inc |-> Shl(initseq, 1)]

\* rng_state.state = 0U; rng_state.inc = (initseq << 1u) | 1u
srandom_reset(rs, initseq) ==
    [state |-> FromNat(0, 8), inc |-> Or(Shl(initseq, 1), FromNat(1, 8))]

\* rng_state.state += initstate
srandom_add(rs, initstate) ==
    [rs EXCEPT !.state = Add(rs.state, initstate)]

srandom_second(c1, c2) == [rng |-> c2.rng, calls |-> <<c1, c2>>]

srandom_first(c1, initstate) ==
    srandom_second(c1, pcg32_random(srandom_add(c1.rng, initstate)))

\* seed_generator.c: void pcg32_srandom(uint64_t initstate, uint64_t initseq)
pcg32_srandom(rs, initstate, initseq) ==
    srandom_first(pcg32_random(srandom_reset(rs, initseq)), initstate)

\* Faulty variant: the divisor (double)UINT32_MAX.
MyrandDivisorMax == U64(UINT32_MAX)

\* (double)UINT32_MAX + 1.0: doubles hold integers below 2^53 exactly
MyrandDivisor == Add(U64(UINT32_MAX), FromNat(1, 8))

\* double myrand(void): the quotient num / den, both exact in a double
myrand_value(ret) == [num |-> U64(ret), den |-> MyrandDivisor]

---------------------------------------------------------------------------
(* Arguments the operations are called with.                               *)

TwoTo62 == Hex(<<\h40, 0, 0, 0, 0, 0, 0, 0>>)
TwoTo63 == Hex(<<\h80, 0, 0, 0, 0, 0, 0, 0>>)
AllOnes == Hex(<<\hff, \hff, \hff, \hff, \hff, \hff, \hff, \hff>>)

\* seedgen_init(12345ULL, 67890ULL) is the call the programs make
ProgramSeed == <<FromNat(12345, 8), FromNat(67890, 8)>>

\* seedgen_init(0x9bc72372c4bdea28, 0x0e3eef64f9ce473a): from this seeding
\* generate_seed returns 0xbabd76aa, 0xc7cd1d99, 0xbabd76aa, 0xc7cd1d99, ...
RepeatingSeed ==
    << Hex(<<\h9b, \hc7, \h23, \h72, \hc4, \hbd, \hea, \h28>>),
       Hex(<<\h0e, \h3e, \hef, \h64, \hf9, \hce, \h47, \h3a>>) >>

MasterSeedArgs ==
    { ProgramSeed,
      <<FromNat(42, 8), FromNat(54, 8)>>,
      <<AllOnes, AllOnes>>,
      RepeatingSeed }

WorkerSeedArgs ==
    { <<FromNat(42, 8), FromNat(54, 8)>>,
      <<FromNat(0, 8), FromNat(14, 8)>>,
      <<FromNat(0, 8), TwoTo63>>,
      <<AllOnes, AllOnes>> }

PairSeedArgs ==
    { <<FromNat(0, 8), FromNat(0, 8)>>,
      <<FromNat(0, 8), FromNat(1, 8)>>,
      <<FromNat(0, 8), TwoTo62>>,
      <<FromNat(0, 8), TwoTo63>>,
      <<FromNat(42, 8), FromNat(54, 8)>>,
      <<FromNat(42, 8), Add(TwoTo63, FromNat(54, 8))>> }

\* What main has done: the seedgen_init calls, and for each run (each pass
\* of the run loop or of the sample loop) the generate_seed calls (seeds),
\* the myrand_init calls (inits) and the myrand calls (draws) made inside it,
\* with the number of values the sample generator had already returned since
\* its seeding when the run made its first myrand call (stale).  "before"
\* counts the calls made before the first run.  mod_zero: the sweep loop has
\* evaluated sweep % 0; written: the indices m it has used; hops, blocked:
\* the attempts of updateLattice that moved a particle and those that did not.
NoCalls == [seeds |-> 0, inits |-> 0, draws |-> 0, stale |-> 0]

NoHist ==
    [seedings |-> 0, before |-> NoCalls, runs |-> <<>>,
     mod_zero |-> FALSE, written |-> {}, hops |-> 0, blocked |-> 0]

---------------------------------------------------------------------------
(* The operations of the seed generator and of the sample generator.       *)

\* the objects as the program image holds them before main runs
Loaded ==
    /\ rng_state = RNG_STATE_INITIALIZER
    /\ pcg32_random_state = ZERO_INITIALIZED
    /\ mseed = <<>>
    /\ wseed = <<>>
    /\ wreseeded = FALSE
    /\ mouts = <<>>
    /\ mstates = <<>>
    /\ wouts = <<>>
    /\ mcalls = <<>>
    /\ wcalls = <<>>
    /\ rand = <<>>
    /\ inst = <<ZERO_INITIALIZED, RNG_STATE_INITIALIZER>>
    /\ iseed = <<<<>>, <<>>>>
    /\ ireseeded = <<FALSE, FALSE>>
    /\ iouts = <<<<>>, <<>>>>
    /\ istates = <<<<>>, <<>>>>
    /\ prog = "none"
    /\ pc = "none"
    /\ args = <<>>
    /\ loc = <<>>
    /\ lat = <<>>
    /\ hist = NoHist

Init == Loaded /\ lcg = <<>>

masterVars == <<rng_state, mseed, mouts, mstates, mcalls>>
workerVars == <<pcg32_random_state, wseed, wreseeded, wouts, wcalls, rand>>
pairVars == <<inst, iseed, ireseeded, iouts, istates>>
mainVars == <<prog, pc, args, loc, lat, hist>>

\* seedgen_init(state, seq), as any caller sees it
seedgen_init_call(state, seq) ==
    /\ LET s == pcg32_srandom(rng_state, state, seq)
       IN  /\ rng_state' = s.rng
           /\ mcalls' = s.calls
    /\ mseed' = <<state, seq>>
    /\ mouts' = <<>>
    /\ mstates' = <<>>

\* generate_seed() returning ret, as any caller sees it
generate_seed_call(c) ==
    /\ rng_state' = c.rng
    /\ mouts' = Append(mouts, c.ret)
    /\ mstates' = Append(mstates, rng_state.state)
    /\ mcalls' = <<c>>
    /\ UNCHANGED mseed

\* myrand_init(initstate, initseq), as any caller sees it
myrand_init_call(initstate, initseq) ==
    /\ LET s == pcg32_srandom_r(pcg32_random_state, initstate, initseq)
       IN  /\ pcg32_random_state' = s.rng
           /\ wcalls' = s.calls
    /\ wseed' = <<initstate, initseq>>
    /\ wreseeded' = (wseed # <<>>)
    /\ wouts' = <<>>
    /\ rand' = <<>>

\* myrand() making the call c of pcg32_random_r, as any caller sees it
myrand_call(c) ==
    /\ pcg32_random_state' = c.rng
    /\ wouts' = Append(wouts, c.ret)
    /\ wcalls' = <<c>>
    /\ rand' = myrand_value(c.ret)
    /\ UNCHANGED <<wseed, wreseeded>>

\* void seedgen_init(uint64_t state, uint64_t seq)
seedgen_init(state, seq) ==
    /\ seedgen_init_call(state, seq)
    /\ UNCHANGED <<workerVars, pairVars, mainVars, lcg>>

\* Faulty variant: the seed generator and the sample generator share one
\* object, so a seed drawn moves the sample generator as well.
generate_seed_shared ==
    /\ Len(mouts) < MaxSeeds
    /\ generate_seed_call(pcg32_random(rng_state))
    /\ pcg32_random_state' = pcg32_random(rng_state).rng
    /\ UNCHANGED <<wseed, wreseeded, wouts, wcalls, rand, pairVars, mainVars, lcg>>

\* unsigned int generate_seed(void)
generate_seed ==
    /\ Len(mouts) < MaxSeeds
    /\ generate_seed_call(pcg32_random(rng_state))
    /\ UNCHANGED <<workerVars, pairVars, mainVars, lcg>>

\* void myrand_init(unsigned long int initstate, unsigned long int initseq)
myrand_init(initstate, initseq) ==
    /\ myrand_init_call(initstate, initseq)
    /\ UNCHANGED <<masterVars, pairVars, mainVars, lcg>>

\* double myrand(void)
myrand ==
    /\ Len(wouts) < MaxDraws
    /\ myrand_call(pcg32_random_r(pcg32_random_state))
    /\ UNCHANGED <<masterVars, pairVars, mainVars, lcg>>

Next ==
    \/ \E a \in MasterSeedArgs : seedgen_init(a[1], a[2])
    \/ generate_seed
    \/ \E a \in WorkerSeedArgs : myrand_init(a[1], a[2])
    \/ myrand

Spec == Init /\ [][Next]_vars

---------------------------------------------------------------------------
(* Two generator objects driven through the reentrant interface, as two    *)
(* runs of a program (or two programs) would drive their own.              *)

\* pcg32_srandom_r(&object, initstate, initseq) on object i
srandom_r_call(i, initstate, initseq) ==
    /\ inst' = [inst EXCEPT
                  ![i] = pcg32_srandom_r(inst[i], initstate, initseq).rng]
    /\ iseed' = [iseed EXCEPT ![i] = <<initstate, initseq>>]
    /\ ireseeded' = [ireseeded EXCEPT ![i] = (iseed[i] # <<>>)]
    /\ iouts' = [iouts EXCEPT ![i] = <<>>]
    /\ istates' = [istates EXCEPT ![i] = <<>>]
    /\ UNCHANGED <<masterVars, workerVars, mainVars, lcg>>

\* pcg32_random_r(&object) on object i
random_r_call(i) ==
    /\ Len(iouts[i]) < MaxPairDraws
    /\ LET c == pcg32_random_r(inst[i])
       IN  /\ inst' = [inst EXCEPT ![i] = c.rng]
           /\ iouts' = [iouts EXCEPT ![i] = Append(@, c.ret)]
           /\ istates' = [istates EXCEPT ![i] = Append(@, c.rng.state)]
    /\ UNCHANGED <<iseed, ireseeded, masterVars, workerVars, mainVars, lcg>>

NextPair ==
    \/ \E i \in 1..2 : \E a \in PairSeedArgs : srandom_r_call(i, a[1], a[2])
    \/ \E i \in 1..2 : random_r_call(i)

SpecPair == Init /\ [][NextPair]_vars

---------------------------------------------------------------------------
(* The three programs: what each main does, one statement or one loop      *)
(* iteration at a time.  Files open and memory is allocated without        *)
(* failure; int and long values are the integers themselves, the runs      *)
(* followed here staying far from their limits.                            *)

HistRun(h) == [h EXCEPT !.runs = Append(@, NoCalls)]

HistSeed(h) ==
    IF h.runs = <<>> THEN [h EXCEPT !.before.seeds = @ + 1]
    ELSE [h EXCEPT !.runs[Len(h.runs)].seeds = @ + 1]

HistInit(h) ==
    IF h.runs = <<>> THEN [h EXCEPT !.before.inits = @ + 1]
    ELSE [h EXCEPT !.runs[Len(h.runs)].inits = @ + 1]

HistDraw(h, n) ==
    IF h.runs = <<>> THEN [h EXCEPT !.before.draws = @ + n]
    ELSE [h EXCEPT !.runs[Len(h.runs)].stale =
                       IF h.runs[Len(h.runs)].draws = 0 THEN Len(wouts) ELSE @,
                   !.runs[Len(h.runs)].draws = @ + n]

HistAttempt(h, moved) ==
    IF moved THEN [h EXCEPT !.hops = @ + 1] ELSE [h EXCEPT !.blocked = @ + 1]

\* k / 4 as a value of myrand's type (num / 2^32)
Quarters(k) == [num |-> Shl(FromNat(k, 8), 30), den |-> MyrandDivisor]

\* a < b for two such values
RandLess(a, b) == Less(a.num, b.num)

\* what an exited program leaves behind
Exited == pc = "exit"

---------------------------------------------------------------------------
(* 01_1d_random_walk/src/main_dat.c                                        *)

Walk1dArgs ==
    { [argc |-> 3, runs |-> 2, iterations |-> 3],
      [argc |-> 3, runs |-> 3, iterations |-> 1],
      [argc |-> 3, runs |-> 1, iterations |-> 0],
      [argc |-> 3, runs |-> 0, iterations |-> 2],
      [argc |-> 2, runs |-> 0, iterations |-> 0] }

\* the variables of main: runs and iterations as read from argv, the others
\* as they are before the first run assigns them
Walk1dLocals(a) ==
    [runs |-> a.runs, iterations |-> a.iterations, run |-> 0,
     seed1 |-> <<>>, seed2 |-> <<>>, position |-> 0, time |-> 0, i |-> 0]

\* main entered; if (argc != 3) return EXIT_FAILURE
main_dat_start(a) ==
    /\ prog = "none"
    /\ prog' = "main_dat"
    /\ args' = a
    /\ pc' = IF a.argc # 3 THEN "exit" ELSE "seedgen_init"
    /\ loc' = <<>>
    /\ hist' = NoHist
    /\ UNCHANGED <<masterVars, workerVars, pairVars, lat, lcg>>

\* Faulty variant: the seed generator left as the static initializer set it.
main_dat_seedgen_init_skipped ==
    /\ prog = "main_dat" /\ pc = "seedgen_init"
    /\ loc' = Walk1dLocals(args)
    /\ pc' = "run"
    /\ UNCHANGED <<masterVars, hist>>
    /\ UNCHANGED <<prog, args, workerVars, pairVars, lat, lcg>>

\* seedgen_init(12345ULL, 67890ULL); runs = atof(argv[1]); iterations = ...
main_dat_seedgen_init ==
    /\ prog = "main_dat" /\ pc = "seedgen_init"
    /\ seedgen_init_call(FromNat(12345, 8), FromNat(67890, 8))
    /\ hist' = [hist EXCEPT !.seedings = @ + 1]
    /\ loc' = Walk1dLocals(args)
    /\ pc' = "run"
    /\ UNCHANGED <<prog, args, workerVars, pairVars, lat, lcg>>

\* for (int run = 0; run < runs; ++run): the test; after the loop the rest of
\* main averages what the runs wrote to the data file and draws nothing
main_dat_run ==
    /\ prog = "main_dat" /\ pc = "run"
    /\ IF loc.run < loc.runs
       THEN pc' = "seed1" /\ hist' = HistRun(hist)
       ELSE pc' = "exit" /\ UNCHANGED hist
    /\ UNCHANGED <<prog, args, loc, masterVars, workerVars, pairVars, lat, lcg>>

\* unsigned int seed1 = generate_seed()
main_dat_seed1 ==
    /\ prog = "main_dat" /\ pc = "seed1"
    /\ \E c \in {pcg32_random(rng_state)} :
          /\ generate_seed_call(c)
          /\ loc' = [loc EXCEPT !.seed1 = c.ret]
    /\ hist' = HistSeed(hist)
    /\ pc' = "seed2"
    /\ UNCHANGED <<prog, args, workerVars, pairVars, lat, lcg>>

\* unsigned int seed2 = generate_seed()
main_dat_seed2 ==
    /\ prog = "main_dat" /\ pc = "seed2"
    /\ \E c \in {pcg32_random(rng_state)} :
          /\ generate_seed_call(c)
          /\ loc' = [loc EXCEPT !.seed2 = c.ret]
    /\ hist' = HistSeed(hist)
    /\ pc' = "myrand_init"
    /\ UNCHANGED <<prog, args, workerVars, pairVars, lat, lcg>>

\* Faulty variant: the two seeds passed in the other order.
main_dat_myrand_init_swapped ==
    /\ prog = "main_dat" /\ pc = "myrand_init"
    /\ myrand_init_call(U64(loc.seed2), U64(loc.seed1))
    /\ hist' = HistInit(hist)
    /\ loc' = [loc EXCEPT !.position = 0, !.time = 0, !.i = 0]
    /\ pc' = "step"
    /\ UNCHANGED <<prog, args, masterVars, pairVars, lat, lcg>>

\* Faulty variant: the sample generator seeded for the first run only.
main_dat_myrand_init_first_run ==
    /\ prog = "main_dat" /\ pc = "myrand_init"
    /\ IF loc.run = 0
       THEN /\ myrand_init_call(U64(loc.seed1), U64(loc.seed2))
            /\ hist' = HistInit(hist)
       ELSE UNCHANGED <<workerVars, hist>>
    /\ loc' = [loc EXCEPT !.position = 0, !.time = 0, !.i = 0]
    /\ pc' = "step"
    /\ UNCHANGED <<prog, args, masterVars, pairVars, lat, lcg>>

\* myrand_init(seed1, seed2); int position = 0, time = 0; ...; i = 0
main_dat_myrand_init ==
    /\ prog = "main_dat" /\ pc = "myrand_init"
    /\ myrand_init_call(U64(loc.seed1), U64(loc.seed2))
    /\ hist' = HistInit(hist)
    /\ loc' = [loc EXCEPT !.position = 0, !.time = 0, !.i = 0]
    /\ pc' = "step"
    /\ UNCHANGED <<prog, args, masterVars, pairVars, lat, lcg>>

\* Faulty variant: a draw equal to 0.5 steps up.
Stepped_from_half(position, r) ==
    IF RandLess(r, Quarters(2)) THEN position - 1 ELSE position + 1

\* if (A[i] > 0.5) position += 1; else position -= 1
Stepped(position, r) ==
    IF RandLess(Quarters(2), r) THEN position + 1 ELSE position - 1

\* one pass of for (int i = 0; i < iterations; i++), the pcg32_random_r call
\* inside myrand being c: A[i] = myrand(); the step; time++
main_dat_step_with(c) ==
    /\ prog = "main_dat" /\ pc = "step"
    /\ loc.i < loc.iterations
    /\ myrand_call(c)
    /\ loc' = [loc EXCEPT
                 !.position = Stepped(@, myrand_value(c.ret)),
                 !.time = @ + 1,
                 !.i = @ + 1]
    /\ hist' = HistDraw(hist, 1)
    /\ UNCHANGED <<prog, pc, args, masterVars, pairVars, lat, lcg>>

main_dat_step ==
    \E c \in {pcg32_random_r(pcg32_random_state)} : main_dat_step_with(c)

\* the walk loop is over: fclose, free, printf, ++run
main_dat_run_end ==
    /\ prog = "main_dat" /\ pc = "step"
    /\ loc.i >= loc.iterations
    /\ loc' = [loc EXCEPT !.run = @ + 1]
    /\ pc' = "run"
    /\ UNCHANGED <<prog, args, hist, masterVars, workerVars, pairVars, lat, lcg>>

---------------------------------------------------------------------------
(* 02_2d_random_walk/src/2d_ran_walk.c                                     *)

\* #define lattice_step 1
lattice_step == 1

\* what the user types at the three prompts
Walk2dArgs ==
    { [runs |-> 2, iterations |-> 3, t_target |-> 2],
      [runs |-> 3, iterations |-> 2, t_target |-> 5],
      [runs |-> 1, iterations |-> 4, t_target |-> 4],
      [runs |-> 0, iterations |-> 2, t_target |-> 1],
      [runs |-> 2, iterations |-> 0, t_target |-> 1] }

\* strc pos = {0, 0, 0, 0}
Origin == [x |-> 0, y |-> 0, step |-> 0, time |-> 0]

\* main entered
ran_walk_start(a) ==
    /\ prog = "none"
    /\ prog' = "2d_ran_walk"
    /\ args' = a
    /\ pc' = "seedgen_init"
    /\ loc' = <<>>
    /\ hist' = NoHist
    /\ UNCHANGED <<masterVars, workerVars, pairVars, lat, lcg>>

\* seedgen_init(12345ULL, 67890ULL)
ran_walk_seedgen_init ==
    /\ prog = "2d_ran_walk" /\ pc = "seedgen_init"
    /\ seedgen_init_call(FromNat(12345, 8), FromNat(67890, 8))
    /\ hist' = [hist EXCEPT !.seedings = @ + 1]
    /\ pc' = "scanf"
    /\ UNCHANGED <<prog, args, loc, workerVars, pairVars, lat, lcg>>

\* the three scanf calls, each followed by its test (<= 0: EXIT_FAILURE);
\* strc pos = {0, 0, 0, 0}; double sum_vals_x = 0.0, sum_vals_y = 0.0
ran_walk_scanf ==
    /\ prog = "2d_ran_walk" /\ pc = "scanf"
    /\ IF args.runs <= 0 \/ args.iterations <= 0 \/ args.t_target <= 0
       THEN pc' = "exit" /\ UNCHANGED loc
       ELSE /\ pc' = "run"
            /\ loc' = [runs |-> args.runs, iterations |-> args.iterations,
                       t_target |-> args.t_target, run |-> 0,
                       seed1 |-> <<>>, seed2 |-> <<>>, pos |-> Origin,
                       sum_vals_x |-> 0, sum_vals_y |-> 0]
    /\ UNCHANGED <<prog, args, hist, masterVars, workerVars, pairVars, lat, lcg>>

\* for (int run = 0; run < runs; ++run): the test, then fopen and
\* pos = (strc){0, 0, 0, 0}; after the loop the rest of main reads the data
\* file back and draws nothing
ran_walk_run ==
    /\ prog = "2d_ran_walk" /\ pc = "run"
    /\ IF loc.run < loc.runs
       THEN /\ pc' = "seed1"
            /\ hist' = HistRun(hist)
            /\ loc' = [loc EXCEPT !.pos = Origin]
       ELSE pc' = "exit" /\ UNCHANGED <<hist, loc>>
    /\ UNCHANGED <<prog, args, masterVars, workerVars, pairVars, lat, lcg>>

\* unsigned int seed1 = generate_seed()
ran_walk_seed1 ==
    /\ prog = "2d_ran_walk" /\ pc = "seed1"
    /\ \E c \in {pcg32_random(rng_state)} :
          /\ generate_seed_call(c)
          /\ loc' = [loc EXCEPT !.seed1 = c.ret]
    /\ hist' = HistSeed(hist)
    /\ pc' = "seed2"
    /\ UNCHANGED <<prog, args, workerVars, pairVars, lat, lcg>>

\* unsigned int seed2 = generate_seed()
ran_walk_seed2 ==
    /\ prog = "2d_ran_walk" /\ pc = "seed2"
    /\ \E c \in {pcg32_random(rng_state)} :
          /\ generate_seed_call(c)
          /\ loc' = [loc EXCEPT !.seed2 = c.ret]
    /\ hist' = HistSeed(hist)
    /\ pc' = "myrand_init"
    /\ UNCHANGED <<prog, args, workerVars, pairVars, lat, lcg>>

\* myrand_init(seed1, seed2); the trace file is opened for run 0;
\* pos.step = 0
ran_walk_myrand_init ==
    /\ prog = "2d_ran_walk" /\ pc = "myrand_init"
    /\ myrand_init_call(U64(loc.seed1), U64(loc.seed2))
    /\ hist' = HistInit(hist)
    /\ loc' = [loc EXCEPT !.pos.step = 0]
    /\ pc' = "step"
    /\ UNCHANGED <<prog, args, masterVars, pairVars, lat, lcg>>

\* Faulty variant: each threshold belongs to the quarter below it.
Moved_inclusive(pos, r) ==
    IF ~RandLess(Quarters(1), r) THEN [pos EXCEPT !.x = @ + lattice_step]
    ELSE IF ~RandLess(Quarters(2), r) THEN [pos EXCEPT !.x = @ - lattice_step]
    ELSE IF ~RandLess(Quarters(3), r) THEN [pos EXCEPT !.y = @ + lattice_step]
    ELSE [pos EXCEPT !.y = @ - lattice_step]

\* if (r < 0.25) pos.x += lattice_step; else if (r < 0.5) pos.x -= ...
Moved(pos, r) ==
    IF RandLess(r, Quarters(1)) THEN [pos EXCEPT !.x = @ + lattice_step]
    ELSE IF RandLess(r, Quarters(2)) THEN [pos EXCEPT !.x = @ - lattice_step]
    ELSE IF RandLess(r, Quarters(3)) THEN [pos EXCEPT !.y = @ + lattice_step]
    ELSE [pos EXCEPT !.y = @ - lattice_step]

\* pos.time++; if (pos.time == t_target) { sum_vals_x += pos.x; ... };
\* pos.step++
Timed(l, pos) ==
    [l EXCEPT !.pos = [pos EXCEPT !.time = @ + 1, !.step = @ + 1],
              !.sum_vals_x = IF pos.time + 1 = l.t_target THEN @ + pos.x ELSE @,
              !.sum_vals_y = IF pos.time + 1 = l.t_target THEN @ + pos.y ELSE @]

\* one pass of for (pos.step = 0; pos.step < iterations; pos.step++), the
\* pcg32_random_r call inside myrand being c
ran_walk_step_with(c) ==
    /\ prog = "2d_ran_walk" /\ pc = "step"
    /\ loc.pos.step < loc.iterations
    /\ myrand_call(c)
    /\ loc' = Timed(loc, Moved(loc.pos, myrand_value(c.ret)))
    /\ hist' = HistDraw(hist, 1)
    /\ UNCHANGED <<prog, pc, args, masterVars, pairVars, lat, lcg>>

ran_walk_step ==
    \E c \in {pcg32_random_r(pcg32_random_state)} : ran_walk_step_with(c)

\* the walk loop is over: fclose, printf, ++run
ran_walk_run_end ==
    /\ prog = "2d_ran_walk" /\ pc = "step"
    /\ loc.pos.step >= loc.iterations
    /\ loc' = [loc EXCEPT !.run = @ + 1]
    /\ pc' = "run"
    /\ UNCHANGED <<prog, args, hist, masterVars, workerVars, pairVars, lat, lcg>>

---------------------------------------------------------------------------
(* 03_diffusion_coefficient/src/diff_coef.c                                *)

\* #define DIM 2
DIM == 2

\* #define MY_EMPTY (-1L)
MY_EMPTY == -1

\* num_measurements = 100
NUM_MEASUREMENTS == 100

\* the content of memory malloc returned and nothing has written yet
Unwritten == "unwritten"

\* a / b and a % b on long operands, b # 0: the quotient truncates toward zero
CDiv(a, b) ==
    IF (a >= 0) = (b > 0)
    THEN (IF a >= 0 THEN a ELSE 0 - a) \div (IF b > 0 THEN b ELSE 0 - b)
    ELSE 0 - ((IF a >= 0 THEN a ELSE 0 - a) \div (IF b > 0 THEN b ELSE 0 - b))

CMod(a, b) == a - b * CDiv(a, b)

\* argv: L rho num_sweeps meas_per_sweep num_samples datafile; rho is a
\* double, here a multiple of 1/4
GasArgs ==
    { [argc |-> 7, L |-> 3, rho |-> 2, num_sweeps |-> 100, num_samples |-> 1],
      [argc |-> 7, L |-> 2, rho |-> 4, num_sweeps |-> 100, num_samples |-> 1],
      [argc |-> 7, L |-> 2, rho |-> 0, num_sweeps |-> 100, num_samples |-> 1],
      [argc |-> 7, L |-> 2, rho |-> 2, num_sweeps |-> 0, num_samples |-> 3],
      [argc |-> 7, L |-> 1, rho |-> 3, num_sweeps |-> 200, num_samples |-> 2],
      [argc |-> 7, L |-> 1, rho |-> 2, num_sweeps |-> 50, num_samples |-> 1],
      [argc |-> 7, L |-> 1, rho |-> 2, num_sweeps |-> 199, num_samples |-> 1],
      [argc |-> 7, L |-> 1, rho |-> 2, num_sweeps |-> 0 - 100, num_samples |-> 1],
      [argc |-> 6, L |-> 1, rho |-> 2, num_sweeps |-> 100, num_samples |-> 1] }

\* SITE(x, y), POS(p, mu), TRUE_POS(p, mu), ZERO_POS(p, mu) in the arrays l
\* of a lattice of side n
SITE(l, n, x, y) == l.particleOfSite[x * n + y]

POS(l, p, mu) == l.positionOfParticle[p * DIM + mu]

TRUE_POS(l, p, mu) == l.truePositionOfParticle[p * DIM + mu]

ZERO_POS(l, p, mu) == l.zeroPositionOfParticle[p * DIM + mu]

\* main entered; if (argc != 7) return EXIT_FAILURE
diff_coef_start(a) ==
    /\ prog = "none"
    /\ prog' = "diff_coef"
    /\ args' = a
    /\ pc' = IF a.argc # 7 THEN "exit" ELSE "parse"
    /\ loc' = <<>>
    /\ hist' = NoHist
    /\ UNCHANGED <<masterVars, workerVars, pairVars, lat, lcg>>

\* measurement_period = num_sweeps / num_measurements
Period(num_sweeps) == CDiv(num_sweeps, NUM_MEASUREMENTS)

\* L = strtol(argv[1], ...) ... measurement_period = num_sweeps / num_measurements
diff_coef_parse ==
    /\ prog = "diff_coef" /\ pc = "parse"
    /\ loc' = [L |-> args.L, VOLUME |-> args.L * args.L,
               rho |-> Quarters(args.rho),
               num_sweeps |-> args.num_sweeps, num_samples |-> args.num_samples,
               num_measurements |-> NUM_MEASUREMENTS,
               measurement_period |-> Period(args.num_sweeps),
               seed1 |-> <<>>, seed2 |-> <<>>,
               sample |-> 0, sweep |-> 0, trueN |-> 0,
               x |-> 0, y |-> 0, attempt |-> 0]
    /\ pc' = "seedgen_init"
    /\ UNCHANGED <<prog, args, hist, masterVars, workerVars, pairVars, lat, lcg>>

\* seedgen_init(12345ULL, 67890ULL)
diff_coef_seedgen_init ==
    /\ prog = "diff_coef" /\ pc = "seedgen_init"
    /\ seedgen_init_call(FromNat(12345, 8), FromNat(67890, 8))
    /\ hist' = [hist EXCEPT !.seedings = @ + 1]
    /\ pc' = "seed1"
    /\ UNCHANGED <<prog, args, loc, workerVars, pairVars, lat, lcg>>

\* unsigned int seed1 = generate_seed()
diff_coef_seed1 ==
    /\ prog = "diff_coef" /\ pc = "seed1"
    /\ \E c \in {pcg32_random(rng_state)} :
          /\ generate_seed_call(c)
          /\ loc' = [loc EXCEPT !.seed1 = c.ret]
    /\ hist' = HistSeed(hist)
    /\ pc' = "seed2"
    /\ UNCHANGED <<prog, args, workerVars, pairVars, lat, lcg>>

\* unsigned int seed2 = generate_seed()
diff_coef_seed2 ==
    /\ prog = "diff_coef" /\ pc = "seed2"
    /\ \E c \in {pcg32_random(rng_state)} :
          /\ generate_seed_call(c)
          /\ loc' = [loc EXCEPT !.seed2 = c.ret]
    /\ hist' = HistSeed(hist)
    /\ pc' = "myrand_init"
    /\ UNCHANGED <<prog, args, workerVars, pairVars, lat, lcg>>

\* myrand_init(seed1, seed2)
diff_coef_myrand_init ==
    /\ prog = "diff_coef" /\ pc = "myrand_init"
    /\ myrand_init_call(U64(loc.seed1), U64(loc.seed2))
    /\ hist' = HistInit(hist)
    /\ pc' = "myInit"
    /\ UNCHANGED <<prog, args, loc, masterVars, pairVars, lat, lcg>>

\* the arrays myInit allocates and the two neighbour tables it fills
Allocated(n) ==
    [particleOfSite |-> [s \in 0..(n * n - 1) |-> Unwritten],
     positionOfParticle |-> [k \in 0..(n * n * DIM - 1) |-> Unwritten],
     zeroPositionOfParticle |-> [k \in 0..(n * n * DIM - 1) |-> Unwritten],
     truePositionOfParticle |-> [k \in 0..(n * n * DIM - 1) |-> Unwritten],
     plusNeighbor |-> [i \in 0..(n - 1) |-> IF i = n - 1 THEN 0 ELSE i + 1],
     minusNeighbor |-> [i \in 0..(n - 1) |-> IF i = 0 THEN n - 1 ELSE i - 1]]

\* myInit(); then long int sweep = 0 and fopen(datafile, "w")
diff_coef_myInit ==
    /\ prog = "diff_coef" /\ pc = "myInit"
    /\ lat' = Allocated(loc.L)
    /\ pc' = IF loc.num_measurements * loc.measurement_period # loc.num_sweeps
             THEN "exit" ELSE "sample"
    /\ loc' = [loc EXCEPT !.sweep = 0, !.sample = 0]
    /\ UNCHANGED <<prog, args, hist, masterVars, workerVars, pairVars, lcg>>

\* for (long int sample = 0; sample < num_samples; sample++): the test, then
\* the entry of initLattice: trueN = 0 and every site MY_EMPTY; after the
\* loop main writes the averages and myEnd frees the arrays
diff_coef_sample ==
    /\ prog = "diff_coef" /\ pc = "sample"
    /\ IF loc.sample < loc.num_samples
       THEN /\ pc' = "initLattice"
            /\ hist' = HistRun(hist)
            /\ loc' = [loc EXCEPT !.trueN = 0, !.x = 0, !.y = 0]
            /\ lat' = [lat EXCEPT !.particleOfSite =
                                     [s \in DOMAIN @ |-> MY_EMPTY]]
       ELSE pc' = "exit" /\ UNCHANGED <<hist, loc, lat>>
    /\ UNCHANGED <<prog, args, masterVars, workerVars, pairVars, lcg>>

\* SITE(x, y) = p; POS(p, .) = ZERO_POS(p, .) = TRUE_POS(p, .) = (x, y)
Placed(l, n, p, x, y) ==
    [l EXCEPT !.particleOfSite[x * n + y] = p,
              !.positionOfParticle[p * DIM] = x,
              !.positionOfParticle[p * DIM + 1] = y,
              !.zeroPositionOfParticle[p * DIM] = x,
              !.zeroPositionOfParticle[p * DIM + 1] = y,
              !.truePositionOfParticle[p * DIM] = x,
              !.truePositionOfParticle[p * DIM + 1] = y]

\* initLattice: one pass of the inner loop of the filling loops,
\* long double r = myrand(); if (r < rho) { ...; trueN++; }
diff_coef_initLattice_site ==
    /\ prog = "diff_coef" /\ pc = "initLattice"
    /\ loc.x < loc.L
    /\ \E c \in {pcg32_random_r(pcg32_random_state)} :
          /\ myrand_call(c)
          /\ \E placed \in {RandLess(myrand_value(c.ret), loc.rho)} :
                /\ lat' = IF placed
                          THEN Placed(lat, loc.L, loc.trueN, loc.x, loc.y)
                          ELSE lat
                /\ loc' = [loc EXCEPT
                             !.trueN = IF placed THEN @ + 1 ELSE @,
                             !.y = IF @ + 1 < loc.L THEN @ + 1 ELSE 0,
                             !.x = IF loc.y + 1 < loc.L THEN @ ELSE @ + 1]
    /\ hist' = HistDraw(hist, 1)
    /\ UNCHANGED <<prog, pc, args, masterVars, pairVars, lcg>>

\* initLattice returns trueN; for (sweep = 1; ...
diff_coef_initLattice_return ==
    /\ prog = "diff_coef" /\ pc = "initLattice"
    /\ loc.x >= loc.L
    /\ loc' = [loc EXCEPT !.sweep = 1]
    /\ pc' = "sweep"
    /\ UNCHANGED <<prog, args, hist, lat, masterVars, workerVars, pairVars, lcg>>

\* for (...; sweep <= num_sweeps; ...): the test, then the entry of
\* updateLattice; after the loop, sample++
diff_coef_sweep ==
    /\ prog = "diff_coef" /\ pc = "sweep"
    /\ IF loc.sweep <= loc.num_sweeps
       THEN pc' = "updateLattice" /\ loc' = [loc EXCEPT !.attempt = 0]
       ELSE pc' = "sample" /\ loc' = [loc EXCEPT !.sample = @ + 1]
    /\ UNCHANGED <<prog, args, hist, lat, masterVars, workerVars, pairVars, lcg>>

\* long int p = (long int)(myrand() * (double)trueN)
Picked(ret, trueN) == ToNat(Shr(Mul(U64(ret), FromNat(trueN, 8)), 32))

\* int dir = (int)(4.0 * myrand())
Direction(ret) == ToNat(Shr(ret, 30))

\* the switch on dir that sets (nx, ny)
Neighbor(l, dir, x, y) ==
    IF dir = 0 THEN <<l.plusNeighbor[x], y>>
    ELSE IF dir = 1 THEN <<l.minusNeighbor[x], y>>
    ELSE IF dir = 2 THEN <<x, l.plusNeighbor[y]>>
    ELSE <<x, l.minusNeighbor[y]>>

\* Faulty variant: the site left behind is not emptied.
SiteMoved_not_emptied(l, n, p, from, to) ==
    [l EXCEPT !.particleOfSite[to[1] * n + to[2]] = p]

\* SITE(nx, ny) = p; SITE(x, y) = MY_EMPTY
SiteMoved(l, n, p, from, to) ==
    [l EXCEPT !.particleOfSite[to[1] * n + to[2]] = p,
              !.particleOfSite[from[1] * n + from[2]] = MY_EMPTY]

\* Faulty variant: only the x coordinate is stored.
PosMoved_x_only(l, p, to) ==
    [l EXCEPT !.positionOfParticle[p * DIM] = to[1]]

\* POS(p, 0) = nx; POS(p, 1) = ny
PosMoved(l, p, to) ==
    [l EXCEPT !.positionOfParticle[p * DIM] = to[1],
              !.positionOfParticle[p * DIM + 1] = to[2]]

\* Faulty variant: the unwrapped position goes up whatever the direction.
TrueMoved_up(l, p, dir) ==
    [l EXCEPT !.truePositionOfParticle[p * DIM + (dir \div 2)] = @ + 1]

\* the switch on dir that moves TRUE_POS(p, .) by one
TrueMoved(l, p, dir) ==
    IF dir = 0 THEN [l EXCEPT !.truePositionOfParticle[p * DIM] = @ + 1]
    ELSE IF dir = 1 THEN [l EXCEPT !.truePositionOfParticle[p * DIM] = @ - 1]
    ELSE IF dir = 2 THEN [l EXCEPT !.truePositionOfParticle[p * DIM + 1] = @ + 1]
    ELSE [l EXCEPT !.truePositionOfParticle[p * DIM + 1] = @ - 1]

\* steps 5 and 6 of an attempt: nothing if SITE(nx, ny) is occupied,
\* otherwise the particle moves
Hopped(l, n, p, dir, from, to) ==
    IF SITE(l, n, to[1], to[2]) # MY_EMPTY THEN l
    ELSE TrueMoved(PosMoved(SiteMoved(l, n, p, from, to), p, to), p, dir)

\* the attempt that draws r1 then r2
Attempted(l, n, trueN, r1, r2) ==
    Hopped(l, n, Picked(r1, trueN), Direction(r2),
           <<POS(l, Picked(r1, trueN), 0), POS(l, Picked(r1, trueN), 1)>>,
           Neighbor(l, Direction(r2), POS(l, Picked(r1, trueN), 0),
                    POS(l, Picked(r1, trueN), 1)))

\* updateLattice: one pass of for (attempt = 0; attempt < trueN; ++attempt)
diff_coef_attempt ==
    /\ prog = "diff_coef" /\ pc = "updateLattice"
    /\ loc.attempt < loc.trueN
    /\ \E c1 \in {pcg32_random_r(pcg32_random_state)} :
          \E c2 \in {pcg32_random_r(c1.rng)} :
             /\ pcg32_random_state' = c2.rng
             /\ wouts' = wouts \o <<c1.ret, c2.ret>>
             /\ wcalls' = <<c1, c2>>
             /\ rand' = myrand_value(c2.ret)
             /\ lat' = Attempted(lat, loc.L, loc.trueN, c1.ret, c2.ret)
    /\ loc' = [loc EXCEPT !.attempt = @ + 1]
    /\ hist' = HistAttempt(HistDraw(hist, 2), lat' # lat)
    /\ UNCHANGED <<prog, pc, args, wseed, wreseeded, masterVars, pairVars, lcg>>

\* Faulty variant: the index counted from 1.
MeasureIndex_from_1(sweep, period) == CDiv(sweep, period)

\* long m = sweep / measurement_period - 1
MeasureIndex(sweep, period) == CDiv(sweep, period) - 1

\* updateLattice returns; if (sweep > 0 && sweep % measurement_period == 0)
\* { m = ...; averageDeltaR2[m] += ...; errorDeltaR2[m] += ... }; sweep++.
\* sweep % 0 is undefined: the program may stop there or go on
diff_coef_measure ==
    /\ prog = "diff_coef" /\ pc = "updateLattice"
    /\ loc.attempt >= loc.trueN
    /\ IF loc.sweep > 0 /\ loc.measurement_period = 0
       THEN /\ hist' = [hist EXCEPT !.mod_zero = TRUE]
            /\ pc' \in {"exit", "sweep"}
       ELSE /\ hist' =
                 IF loc.sweep > 0 /\ CMod(loc.sweep, loc.measurement_period) = 0
                 THEN [hist EXCEPT !.written =
                          @ \cup {MeasureIndex(loc.sweep, loc.measurement_period)}]
                 ELSE hist
            /\ pc' = "sweep"
    /\ loc' = [loc EXCEPT !.sweep = @ + 1]
    /\ UNCHANGED <<prog, args, lat, masterVars, workerVars, pairVars, lcg>>

---------------------------------------------------------------------------
(* A program is started once and runs to its end.                          *)

NextMain ==
    \/ \E a \in Walk1dArgs : main_dat_start(a)
    \/ main_dat_seedgen_init
    \/ main_dat_run
    \/ main_dat_seed1
    \/ main_dat_seed2
    \/ main_dat_myrand_init
    \/ main_dat_step
    \/ main_dat_run_end
    \/ \E a \in Walk2dArgs : ran_walk_start(a)
    \/ ran_walk_seedgen_init
    \/ ran_walk_scanf
    \/ ran_walk_run
    \/ ran_walk_seed1
    \/ ran_walk_seed2
    \/ ran_walk_myrand_init
    \/ ran_walk_step
    \/ ran_walk_run_end
    \/ \E a \in GasArgs : diff_coef_start(a)
    \/ diff_coef_parse
    \/ diff_coef_seedgen_init
    \/ diff_coef_seed1
    \/ diff_coef_seed2
    \/ diff_coef_myrand_init
    \/ diff_coef_myInit
    \/ diff_coef_sample
    \/ diff_coef_initLattice_site
    \/ diff_coef_initLattice_return
    \/ diff_coef_sweep
    \/ diff_coef_attempt
    \/ diff_coef_measure

SpecMain == Init /\ [][NextMain]_vars

---------------------------------------------------------------------------
(* The state transition of pcg32_random_r on a state of PeriodBits bits:   *)
(* the multiplier and the sum reduced mod 2^PeriodBits.                    *)

PeriodBits == 4

PeriodStates == 0..(2 ^ PeriodBits - 1)

\* 6364136223846793005 mod 2^PeriodBits, from the low byte of the constant
MultScaled == PCG32_MULT[1] % (2 ^ PeriodBits)

\* Faulty variant: the increment added as it is, odd or not.
advance_scaled_plain(oldstate, inc) ==
    (oldstate * MultScaled + inc) % (2 ^ PeriodBits)

\* rng->state = oldstate * 6364136223846793005ULL + (rng->inc | 1)
advance_scaled(oldstate, inc) ==
    (oldstate * MultScaled + OrNat(inc, 1)) % (2 ^ PeriodBits)

\* any object: a state, an increment, and no state held before
InitPeriod ==
    /\ Loaded
    /\ lcg \in [state : PeriodStates, inc : PeriodStates,
                start : PeriodStates, held : {{}}, steps : {0}]
    /\ lcg.start = lcg.state

\* one pcg32_random_r call: the state held so far joins the states held
random_r_scaled ==
    /\ lcg.steps < 2 ^ PeriodBits
    /\ lcg' = [lcg EXCEPT !.state = advance_scaled(lcg.state, lcg.inc),
                          !.held = @ \cup {lcg.state},
                          !.steps = @ + 1]
    /\ UNCHANGED <<masterVars, workerVars, pairVars, mainVars>>

NextPeriod == random_r_scaled

SpecPeriod == InitPeriod /\ [][NextPeriod]_vars

---------------------------------------------------------------------------
(* The walk loops under any value pcg32_random_r can return: the two walk  *)
(* programs as above, the value returned inside each myrand of a step      *)
(* being any of StepDraws (the thresholds, their neighbours, the ends).    *)

StepDraws ==
    { Hex(<<\h00, \h00, \h00, \h00>>), Hex(<<\h3f, \hff, \hff, \hff>>),
      Hex(<<\h40, \h00, \h00, \h00>>), Hex(<<\h7f, \hff, \hff, \hff>>),
      Hex(<<\h80, \h00, \h00, \h00>>), Hex(<<\h80, \h00, \h00, \h01>>),
      Hex(<<\hbf, \hff, \hff, \hff>>), Hex(<<\hc0, \h00, \h00, \h00>>),
      Hex(<<\hff, \hff, \hff, \hff>>) }

StepWalk1dArgs == { [argc |-> 3, runs |-> 2, iterations |-> 3] }

StepWalk2dArgs == { [runs |-> 2, iterations |-> 2, t_target |-> 2] }

\* the call pcg32_random_r makes on the sample generator, returning ret
Returning(ret) == [pcg32_random_r(pcg32_random_state) EXCEPT !.ret = ret]

NextStep ==
    \/ \E a \in StepWalk1dArgs : main_dat_start(a)
    \/ main_dat_seedgen_init
    \/ main_dat_run
    \/ main_dat_seed1
    \/ main_dat_seed2
    \/ main_dat_myrand_init
    \/ \E ret \in StepDraws : main_dat_step_with(Returning(ret))
    \/ main_dat_run_end
    \/ \E a \in StepWalk2dArgs : ran_walk_start(a)
    \/ ran_walk_seedgen_init
    \/ ran_walk_scanf
    \/ ran_walk_run
    \/ ran_walk_seed1
    \/ ran_walk_seed2
    \/ ran_walk_myrand_init
    \/ \E ret \in StepDraws : ran_walk_step_with(Returning(ret))
    \/ ran_walk_run_end

SpecStep == Init /\ [][NextStep]_vars

---------------------------------------------------------------------------
(* Reference arithmetic for the properties: the same unsigned values read  *)
(* as hexadecimal digits and as bits (digit 0 and bit 0 least significant),*)
(* so that a property is computed another way than the model computes.    *)

Nib(x, i) == (x[(i \div 2) + 1] \div (16 ^ (i % 2))) % 16

Bit(x, i) == (x[(i \div 8) + 1] \div (2 ^ (i % 8))) % 2

\* 6364136223846793005 = 0x5851F42D4C957F2D
MULT_HEX == Hex(<<\h58, \h51, \hf4, \h2d, \h4c, \h95, \h7f, \h2d>>)

\* digit i of c | 1
NibOr1(c, i) == IF i = 0 THEN Nib(c, 0) - (Nib(c, 0) % 2) + 1 ELSE Nib(c, i)

\* the sum of the digit products of a * b that land on digit k
RECURSIVE NibColumn(_, _, _, _)
NibColumn(a, b, k, i) ==
    IF i < 0 THEN 0 ELSE Nib(a, i) * Nib(b, k - i) + NibColumn(a, b, k, i - 1)

\* the carry into digit k of a * b + (c | 1)
RECURSIVE NibCarry(_, _, _, _)
NibCarry(a, b, c, k) ==
    IF k = 0 THEN 0
    ELSE (NibColumn(a, b, k - 1, k - 1) + NibOr1(c, k - 1)
          + NibCarry(a, b, c, k - 1)) \div 16

\* digit k (0..15) of (a * b + (c | 1)) mod 2^64
RefLcgDigit(a, b, c, k) ==
    (NibColumn(a, b, k, k) + NibOr1(c, k) + NibCarry(a, b, c, k)) % 16

\* after.state = (before.state * 6364136223846793005 + (before.inc | 1)) mod 2^64
RefLcgStep(before, after) ==
    \A k \in 0..15 :
        Nib(after.state, k) = RefLcgDigit(before.state, MULT_HEX, before.inc, k)

\* old >> 59: the top five bits of old
RefRot(old) ==
    Bit(old, 59) + 2 * Bit(old, 60) + 4 * Bit(old, 61) + 8 * Bit(old, 62)
    + 16 * Bit(old, 63)

\* bit j (0..31) of (((old >> 18) XOR old) >> 27) mod 2^32
RefXorshiftedBit(old, j) ==
    (Bit(old, j + 27) + (IF j + 45 <= 63 THEN Bit(old, j + 45) ELSE 0)) % 2

\* bit i (0..31) of xorshifted rotated right by rot positions
RefOutputBit(old, i) == RefXorshiftedBit(old, (i + RefRot(old)) % 32)

RefOutput(old, ret) == \A i \in 0..31 : Bit(ret, i) = RefOutputBit(old, i)

\* ((initseq << 1) | 1) mod 2^64 = (2 * initseq + 1) mod 2^64
RefInc(initseq) == Add(Add(initseq, initseq), FromNat(1, 8))

\* the generator object seed(initstate, initseq) leaves
RefSeeded(initstate, initseq) ==
    [state |-> Add(Mul(Add(RefInc(initseq), initstate), MULT_HEX),
                   RefInc(initseq)),
     inc   |-> RefInc(initseq)]

Range(seq) == {seq[i] : i \in 1..Len(seq)}

Last(seq) == seq[Len(seq)]

workerDrew == Len(wouts') = Len(wouts) + 1
masterDrew == Len(mouts') = Len(mouts) + 1

---------------------------------------------------------------------------
(* Properties.                                                             *)

\* C1: once a generator has been seeded with (initstate, initseq), in every
\* state reached by draws its increment is ((initseq << 1) | 1) mod 2^64:
\* odd, and the same after each draw as right after the seeding.
C1_IncrementOddAndFixed ==
    /\ mseed # <<>> =>
          /\ rng_state.inc = RefInc(mseed[2])
          /\ Bit(rng_state.inc, 0) = 1
    /\ wseed # <<>> =>
          /\ pcg32_random_state.inc = RefInc(wseed[2])
          /\ Bit(pcg32_random_state.inc, 0) = 1

C1_Witness ==
    /\ wseed # <<>> /\ wseed[2] = AllOnes /\ Len(wouts) >= 2
    /\ mseed # <<>> /\ Len(mouts) >= 2

\* C2: right after seed(initstate, initseq) the generator holds
\* increment = ((initseq << 1) | 1) and
\* state = ((increment + initstate) * 6364136223846793005 + increment),
\* both mod 2^64, whatever it held before.
C2_SeedReplacesState ==
    /\ (wseed # <<>> /\ wouts = <<>>) =>
          pcg32_random_state = RefSeeded(wseed[1], wseed[2])
    /\ (mseed # <<>> /\ mouts = <<>>) =>
          rng_state = RefSeeded(mseed[1], mseed[2])

C2_Witness ==
    /\ wreseeded /\ wouts = <<>> /\ wseed = <<AllOnes, AllOnes>>
    /\ pcg32_random_state.state
         = Hex(<<\h4f, \h5c, \h17, \ha5, \h66, \hd5, \h01, \ha5>>)

\* C3: every draw replaces state by
\* (old * 6364136223846793005 + (increment | 1)) mod 2^64, old being the
\* state before the draw; the product and the sum wrap.
C3_StateTransition ==
    [][ /\ workerDrew => RefLcgStep(pcg32_random_state, pcg32_random_state')
        /\ masterDrew => RefLcgStep(rng_state, rng_state') ]_vars

C3_Witness ==
    /\ Len(wouts) >= 1 /\ wseed = <<AllOnes, AllOnes>>
    /\ Len(mouts) >= 1

\* C4: the value a draw returns is the 32-bit rotate-right, by the top five
\* bits of the state before the draw, of bits 27..58 of (old XOR (old >> 18))
\* of that same state: it is computed from the old state, not the new one.
C4_OutputFromOldState ==
    [][ /\ workerDrew => RefOutput(pcg32_random_state.state, Last(wouts'))
        /\ masterDrew => RefOutput(rng_state.state, Last(mouts')) ]_vars

C4_Witness ==
    /\ Len(wouts) >= 1 /\ Len(wcalls) = 1
    /\ wcalls[1].rot # 0
    /\ Last(wouts) # wcalls[1].xorshifted

\* C5: in every call of the generator rot is old >> 59 and lies in 0..31,
\* the left-shift amount (-rot) & 31 lies in 0..31, and with rot = 0 both
\* shifts are by 0 and the call returns xorshifted unchanged.
C5_ShiftAmounts ==
    \A c \in Range(mcalls) \cup Range(wcalls) :
        /\ c.rot = RefRot(c.old)
        /\ c.rot \in 0..31
        /\ c.lsh \in 0..31
        /\ c.rot = 0 => (c.lsh = 0 /\ c.ret = c.xorshifted)

C5_Witness ==
    /\ Len(wcalls) = 1 /\ Len(wouts) >= 1
    /\ wcalls[1].rot = 0
    /\ wcalls[1].xorshifted # FromNat(0, 4)
    /\ Last(wouts) = wcalls[1].xorshifted

\* C6: myrand returns u / 2^32 where u is the 32-bit result of the draw it
\* made, 0 <= u <= 2^32 - 1, and the divisor is exactly 2^32, so 0 <= v < 1.
C6_Uniform01 ==
    rand # <<>> =>
        /\ rand.den = Hex(<<0, 0, 0, 1, 0, 0, 0, 0>>)
        /\ Len(Last(wouts)) = 4
        /\ \A i \in 1..4 : Last(wouts)[i] \in 0..255
        /\ rand.num = U64(Last(wouts))
        /\ Less(rand.num, rand.den)

C6_Witness ==
    /\ rand # <<>>
    /\ rand.num[4] >= 128

\* C8: after seeding with (42, 54) the first six draws return 0xa15c02b7,
\* 0x7b47f409, 0xba1d3330, 0x83d2f293, 0xbfa4784b, 0xcbed606e, in this order
\* (seed generator and sample generator alike).
KnownVectors ==
    << Hex(<<\ha1, \h5c, \h02, \hb7>>), Hex(<<\h7b, \h47, \hf4, \h09>>),
       Hex(<<\hba, \h1d, \h33, \h30>>), Hex(<<\h83, \hd2, \hf2, \h93>>),
       Hex(<<\hbf, \ha4, \h78, \h4b>>), Hex(<<\hcb, \hed, \h60, \h6e>>) >>

Seed_42_54 == <<FromNat(42, 8), FromNat(54, 8)>>

C8_KnownVectors ==
    /\ wseed = Seed_42_54 =>
          \A k \in 1..Len(wouts) : k <= 6 => wouts[k] = KnownVectors[k]
    /\ mseed = Seed_42_54 =>
          \A k \in 1..Len(mouts) : k <= 6 => mouts[k] = KnownVectors[k]

C8_Witness ==
    /\ wseed = Seed_42_54 /\ Len(wouts) = 6
    /\ mseed = Seed_42_54 /\ Len(mouts) = 6

\* The pairs handed to the runs: each run takes two generate_seed results,
\* seed1 then seed2 (the main loops of main_dat.c and 2d_ran_walk.c).
NumPairs == Len(mouts) \div 2

SeedPair(k) == <<mouts[2 * k - 1], mouts[2 * k]>>

PairsDistinct ==
    \A j \in 1..NumPairs : \A k \in 1..NumPairs :
        j # k => SeedPair(j) # SeedPair(k)

---------------------------------------------------------------------------
(* Properties of two generator objects (SpecPair).                         *)

Min(a, b) == IF a <= b THEN a ELSE b

\* C7: two objects seeded with the same (initstate, initseq), whatever each
\* held before, return the same values and hold the same state after every
\* equal number of draws.
C7_Determinism ==
    (iseed[1] # <<>> /\ iseed[1] = iseed[2]) =>
        /\ \A k \in 1..Min(Len(iouts[1]), Len(iouts[2])) :
              /\ iouts[1][k] = iouts[2][k]
              /\ istates[1][k] = istates[2][k]
        /\ Len(iouts[1]) = Len(iouts[2]) => inst[1] = inst[2]

C7_Witness ==
    /\ iseed[1] # <<>> /\ iseed[1] = iseed[2]
    /\ ireseeded[1] /\ ~ireseeded[2]
    /\ Len(iouts[1]) = 2 /\ Len(iouts[2]) = 2

BothSeededSameInitstate ==
    /\ iseed[1] # <<>> /\ iseed[2] # <<>>
    /\ iseed[1][1] = iseed[2][1]

BothDrew == Len(iouts[1]) >= 1 /\ Len(iouts[2]) >= 1

\* a and b differ in one of the bits 0..62
DifferMod2To63(a, b) ==
    \E i \in 1..8 : IF i = 8 THEN a[i] % 128 # b[i] % 128 ELSE a[i] # b[i]

---------------------------------------------------------------------------
(* Properties of the three programs (SpecMain).                            *)

\* what generate_seed returns after seedgen_init(12345, 67890), in order
ProgramSeedValues ==
    << Hex(<<\h82, \h67, \h3e, \h2d>>), Hex(<<\h25, \h15, \hca, \haf>>),
       Hex(<<\hb9, \hf9, \ha5, \hd0>>), Hex(<<\h03, \hd4, \h74, \h7e>>),
       Hex(<<\hed, \hff, \h89, \he9>>), Hex(<<\h66, \hae, \h7d, \hb9>>) >>

RECURSIVE CallsIn(_, _, _)
CallsIn(runs, field, n) ==
    IF n = 0 THEN 0 ELSE runs[n][field] + CallsIn(runs, field, n - 1)

\* the calls of one kind main has made, before and inside the runs
Calls(h, field) == h.before[field] + CallsIn(h.runs, field, Len(h.runs))

\* this step is a myrand_init call of main
SeedsWorker == Calls(hist', "inits") = Calls(hist, "inits") + 1

\* C11: in each of the three programs, every seeding of the sample generator
\* follows exactly two more generate_seed calls, made one right after the
\* other (the second drawn from the state the first left); the first value
\* is seed1 and the second seed2, and myrand_init receives seed1 as initstate
\* and seed2 as initseq, never the other way round.
C11_SeedsInCallOrder ==
    [][SeedsWorker =>
          /\ Len(mouts) = 2 * Calls(hist', "inits")
          /\ loc.seed1 = mouts[Len(mouts) - 1]
          /\ loc.seed2 = mouts[Len(mouts)]
          /\ RefLcgStep([state |-> mstates[Len(mstates) - 1],
                         inc |-> rng_state.inc],
                        [state |-> mstates[Len(mstates)]])
          /\ wseed' = <<U64(loc.seed1), U64(loc.seed2)>>
          /\ pcg32_random_state' = RefSeeded(U64(loc.seed1), U64(loc.seed2))
          /\ UNCHANGED rng_state]_vars

C11_Witness ==
    /\ prog = "main_dat"
    /\ Calls(hist, "inits") = 2
    /\ Len(wouts) = 0
    /\ wseed = <<U64(ProgramSeedValues[3]), U64(ProgramSeedValues[4])>>
    /\ ProgramSeedValues[3] # ProgramSeedValues[4]

\* C12: in each program the seed generator is seeded once, with
\* (12345, 67890), before the first generate_seed call, and never again:
\* every value generate_seed returns comes from the generator seeded that
\* way (none from the static initializer), and once a value has been drawn
\* no seedgen_init call follows.
C12_SeededOnceBeforeFirstSeed ==
    /\ [](/\ hist.seedings <= 1
          /\ Calls(hist, "seeds") > 0 =>
                /\ hist.seedings = 1
                /\ mseed = ProgramSeed
                /\ Len(mouts) = Calls(hist, "seeds")
                /\ \A k \in 1..Len(mouts) :
                      k <= 6 => mouts[k] = ProgramSeedValues[k])
    /\ [][/\ masterDrew => hist.seedings = 1 /\ mseed = ProgramSeed
          /\ (hist'.seedings # hist.seedings \/ mseed' # mseed) =>
                /\ hist.seedings = 0
                /\ Calls(hist, "seeds") = 0
                /\ hist'.seedings = 1
                /\ mseed' = ProgramSeed
                /\ rng_state' = RefSeeded(ProgramSeed[1], ProgramSeed[2])]_vars

C12_Witness ==
    /\ prog = "main_dat"
    /\ Exited
    /\ hist.seedings = 1
    /\ Calls(hist, "seeds") = 6
    /\ mouts = ProgramSeedValues

\* the run seeds a fresh sample generator from one pair of its own before it
\* draws, and draws from nothing else
FreshWorker(r) ==
    /\ r.seeds <= 2
    /\ r.inits <= 1
    /\ r.inits = 1 => r.seeds = 2
    /\ r.draws > 0 => r.inits = 1 /\ r.stale = 0

\* C13 as stated: every run, in the walk programs and every sample of the
\* lattice-gas program alike, derives one pair of seeds at its start and
\* seeds a fresh sample generator from it; no stream is carried from one run
\* to the next.
C13_EveryRunSeedsFreshWorker ==
    \A k \in 1..Len(hist.runs) : FreshWorker(hist.runs[k])

\* C13, amended: every run of the 1D and 2D walk programs derives one pair of
\* seeds at its start and seeds a fresh sample generator from it, which is
\* the run's only source of random numbers and is not carried into the next
\* run.  The lattice-gas program derives one pair and seeds the sample
\* generator once, before the sample loop; the samples derive nothing and
\* each sample continues the stream where the one before it stopped.
C13_RunsSeedFreshWorkerSamplesShareOne ==
    /\ prog \in {"main_dat", "2d_ran_walk"} =>
          /\ hist.before = NoCalls
          /\ \A k \in 1..Len(hist.runs) : FreshWorker(hist.runs[k])
          /\ hist.runs # <<>> /\ Last(hist.runs).inits = 1 =>
                Len(wouts) = Last(hist.runs).draws
    /\ prog = "diff_coef" =>
          /\ hist.before.seeds <= 2
          /\ hist.before.inits <= 1
          /\ hist.before.draws = 0
          /\ hist.runs # <<>> =>
                hist.before.seeds = 2 /\ hist.before.inits = 1
          /\ \A k \in 1..Len(hist.runs) :
                /\ hist.runs[k].seeds = 0
                /\ hist.runs[k].inits = 0
                /\ hist.runs[k].draws > 0 =>
                      hist.runs[k].stale = CallsIn(hist.runs, "draws", k - 1)
          /\ Len(wouts) = Calls(hist, "draws")

C13_Witness ==
    /\ prog = "diff_coef"
    /\ Exited
    /\ Len(hist.runs) = 3
    /\ Calls(hist, "seeds") = 2
    /\ hist.runs[2].draws > 0
    /\ hist.runs[3].stale = hist.runs[1].draws + hist.runs[2].draws
    /\ hist.runs[3].stale > 0

---------------------------------------------------------------------------
(* Properties of the two generators side by side (Spec).                   *)

\* C14: the seed generator (pcg32_random adds inc) and the sample generator
\* (pcg32_random_r adds inc | 1) seeded with the same (initstate, initseq)
\* are the same generator: they hold the same increment, the k-th value of
\* the one is the k-th value of the other, after equally many draws they
\* hold the same state, and from the same object the two functions return
\* the same value and leave the same object.
C14_SameGenerator ==
    (mseed # <<>> /\ mseed = wseed) =>
        /\ rng_state.inc = pcg32_random_state.inc
        /\ \A k \in 1..Min(Len(mouts), Len(wouts)) : mouts[k] = wouts[k]
        /\ Len(mouts) = Len(wouts) => rng_state = pcg32_random_state
        /\ pcg32_random(rng_state).ret = pcg32_random_r(rng_state).ret
        /\ pcg32_random(rng_state).rng = pcg32_random_r(rng_state).rng

C14_Witness ==
    /\ mseed = <<AllOnes, AllOnes>>
    /\ wseed = mseed
    /\ Len(mouts) = 4
    /\ Len(wouts) = 4
    /\ rng_state = pcg32_random_state
    /\ rng_state.inc = AllOnes

\* C15: the two generators are separate objects.  A myrand or myrand_init
\* call leaves rng_state (state and increment) as it was, a generate_seed
\* call leaves pcg32_random_state as it was, and so the k-th value
\* generate_seed returns after seedgen_init(12345, 67890) is the same
\* whatever the sample generator has been asked in between.
C15_Independent ==
    /\ [][/\ workerVars' # workerVars => UNCHANGED <<rng_state, mouts>>
          /\ masterDrew => UNCHANGED pcg32_random_state]_vars
    /\ [](mseed = ProgramSeed =>
             \A k \in 1..Len(mouts) :
                 k <= 6 => mouts[k] = ProgramSeedValues[k])

C15_Witness ==
    /\ mseed = ProgramSeed
    /\ Len(mouts) = 4
    /\ SeedPair(2) = <<ProgramSeedValues[3], ProgramSeedValues[4]>>
    /\ wreseeded
    /\ Len(wouts) = 5
    /\ pcg32_random_state # rng_state

---------------------------------------------------------------------------
(* Property of the scaled state transition (SpecPeriod).                   *)

\* C16: full period.  The multiplier is 1 mod 4 and the increment added is
\* odd, and in the generator scaled to PeriodBits bits the state transition
\* is a single cycle: during the first 2^PeriodBits - 1 steps the state is
\* never one held before, and after exactly 2^PeriodBits steps every state
\* has been held once and the generator is back at the state it started at.
C16_FullPeriod ==
    /\ PCG32_MULT[1] % 4 = 1
    /\ MULT_HEX = PCG32_MULT
    /\ OrNat(lcg.inc, 1) % 2 = 1
    /\ Cardinality(lcg.held) = lcg.steps
    /\ lcg.steps < 2 ^ PeriodBits => lcg.state \notin lcg.held
    /\ lcg.steps = 2 ^ PeriodBits =>
          /\ lcg.held = PeriodStates
          /\ lcg.state = lcg.start

C16_Witness ==
    /\ lcg.steps = 2 ^ PeriodBits
    /\ lcg.state = lcg.start
    /\ lcg.held = PeriodStates
    /\ lcg.inc % 2 = 0

---------------------------------------------------------------------------
(* Properties of the lattice (SpecMain, the lattice-gas program).          *)

Sites == {<<x, y>> : x \in 0..(loc.L - 1), y \in 0..(loc.L - 1)}

Particles == 0..(loc.trueN - 1)

Occupied == {s \in Sites : SITE(lat, loc.L, s[1], s[2]) # MY_EMPTY}

\* initLattice has been entered: the lattice arrays hold a configuration
LatticeSet == prog = "diff_coef" /\ hist.runs # <<>>

\* C17: particle conservation.  While initLattice fills the lattice, and
\* after it whatever updateLattice has attempted, the number of sites with
\* SITE(x, y) != MY_EMPTY is trueN.
C17_ParticlesConserved ==
    LatticeSet => Cardinality(Occupied) = loc.trueN

C17_Witness ==
    /\ LatticeSet
    /\ Exited
    /\ loc.L = 3
    /\ loc.trueN >= 2
    /\ Cardinality(Occupied) = loc.trueN
    /\ hist.hops >= 10
    /\ hist.blocked >= 10
    /\ \E p \in Particles : POS(lat, p, 0) # ZERO_POS(lat, p, 0)

\* C18: SITE and POS are inverse to each other.  Every particle p below
\* trueN is the content of the site POS(p) names, and every site that is not
\* empty holds a particle below trueN whose POS names that site; so no two
\* particles share a site.
C18_SiteAndPosInverse ==
    LatticeSet =>
        /\ \A p \in Particles :
              /\ <<POS(lat, p, 0), POS(lat, p, 1)>> \in Sites
              /\ SITE(lat, loc.L, POS(lat, p, 0), POS(lat, p, 1)) = p
        /\ \A s \in Occupied :
              /\ SITE(lat, loc.L, s[1], s[2]) \in Particles
              /\ POS(lat, SITE(lat, loc.L, s[1], s[2]), 0) = s[1]
              /\ POS(lat, SITE(lat, loc.L, s[1], s[2]), 1) = s[2]
        /\ \A p \in Particles : \A q \in Particles :
              p # q => <<POS(lat, p, 0), POS(lat, p, 1)>>
                          # <<POS(lat, q, 0), POS(lat, q, 1)>>

C18_Witness ==
    /\ LatticeSet
    /\ pc = "updateLattice"
    /\ loc.L = 3
    /\ loc.trueN >= 2
    /\ hist.hops >= 5
    /\ hist.blocked >= 5
    /\ \E p \in Particles :
          /\ POS(lat, p, 1) # ZERO_POS(lat, p, 1)
          /\ SITE(lat, loc.L, ZERO_POS(lat, p, 0), ZERO_POS(lat, p, 1)) # p

\* C19: the unwrapped position follows the wrapped one.  For every particle
\* p below trueN and both axes, POS(p, mu) is in 0..L-1 and TRUE_POS(p, mu)
\* differs from it by a multiple of L, after hops and blocked attempts alike.
C19_TruePosCongruent ==
    LatticeSet =>
        \A p \in Particles : \A mu \in 0..(DIM - 1) :
            /\ POS(lat, p, mu) \in 0..(loc.L - 1)
            /\ (TRUE_POS(lat, p, mu) - POS(lat, p, mu)) % loc.L = 0

C19_Witness ==
    /\ LatticeSet
    /\ loc.L = 3
    /\ hist.hops >= 1
    /\ hist.blocked >= 1
    /\ \E p \in Particles : TRUE_POS(lat, p, 0) < 0
    /\ \E p \in Particles : TRUE_POS(lat, p, 1) >= loc.L

\* C20: once myInit's check num_measurements * measurement_period ==
\* num_sweeps has passed, the sweep loop never evaluates sweep % 0 and every
\* index m it writes at is in 0..num_measurements - 1.
C20_MeasurementIndexInBounds ==
    prog = "diff_coef" =>
        /\ ~hist.mod_zero
        /\ hist.written \subseteq 0..(NUM_MEASUREMENTS - 1)
        /\ pc \in {"sample", "initLattice", "sweep", "updateLattice"} =>
              /\ NUM_MEASUREMENTS * loc.measurement_period = loc.num_sweeps
              /\ loc.num_sweeps >= 1 => loc.measurement_period >= 1
              /\ pc = "updateLattice" => loc.sweep \in 1..loc.num_sweeps

C20_Witness ==
    /\ prog = "diff_coef"
    /\ Exited
    /\ Len(hist.runs) = 2
    /\ loc.measurement_period = 2
    /\ loc.sweep = loc.num_sweeps + 1
    /\ hist.written = 0..(NUM_MEASUREMENTS - 1)

---------------------------------------------------------------------------
(* Properties of the walk steps (SpecStep).                                *)

\* a pass of the walk loop of the program: the loop is at its test before
\* the step and after it (leaving the loop is another step)
WalkStep(program) ==
    /\ prog = program
    /\ pc = "step" /\ pc' = "step"
    /\ loc' # loc

\* the sample generator made one pcg32_random_r call and returned one value
OneDraw ==
    /\ Len(wouts') = Len(wouts) + 1
    /\ RefLcgStep(pcg32_random_state, pcg32_random_state')
    /\ pcg32_random_state'.inc = pcg32_random_state.inc
    /\ rand'.num = U64(Last(wouts'))

\* the quarter of [0, 1) that ret / 2^32 falls in: the two top bits of ret,
\* the other 30 bits being free (2^30 values in each quarter)
Quarter(ret) == 2 * Bit(ret, 31) + Bit(ret, 30)

\* C21: each pass of the 2D walk loop draws one value r from the sample
\* generator and moves the walker by one lattice step to one of its four
\* nearest neighbours: x + 1 if r < 0.25, x - 1 if 0.25 <= r < 0.5, y + 1 if
\* 0.5 <= r < 0.75, y - 1 if r >= 0.75.  The quarter is given by the two top
\* bits of the 32-bit value drawn, so each holds 2^30 of the 2^32 values.
C21_QuarterStep ==
    /\ [](/\ \A k \in 1..3 :
                Quarters(k).num = Hex(<<0, 0, 0, 0, 64 * k, 0, 0, 0>>)
          /\ MyrandDivisor = Hex(<<0, 0, 0, 1, 0, 0, 0, 0>>)
          /\ (prog = "2d_ran_walk" /\ pc = "step") =>
                /\ Len(wouts) = loc.pos.step
                /\ loc.pos.time = loc.pos.step)
    /\ [][WalkStep("2d_ran_walk") =>
             /\ OneDraw
             /\ <<loc'.pos.x - loc.pos.x, loc'.pos.y - loc.pos.y>> =
                    <<<<1, 0>>, <<0 - 1, 0>>, <<0, 1>>, <<0, 0 - 1>>>>
                        [Quarter(Last(wouts')) + 1]]_vars

C21_Witness ==
    /\ prog = "2d_ran_walk"
    /\ pc = "step"
    /\ wouts = <<Hex(<<\h40, \h00, \h00, \h00>>), Hex(<<\hbf, \hff, \hff, \hff>>)>>
    /\ loc.pos.x = 0 - 1
    /\ loc.pos.y = 1
    /\ loc.pos.step = 2

\* ret / 2^32 > 0.5: ret is above 2^31
AboveHalf(ret) == Bit(ret, 31) = 1 /\ \E j \in 0..30 : Bit(ret, j) = 1

\* C22: every run of the 1D walk starts at position 0; each pass of its loop
\* draws one value from the sample generator and moves the position by +1 if
\* the value is above 0.5 (the 32-bit value above 2^31) and by -1 otherwise,
\* a value of exactly 0.5 included; so after the step with index i the
\* position has the parity of i + 1 and is between -(i + 1) and i + 1.
C22_CoinStep ==
    /\ []((prog = "main_dat" /\ pc = "step") =>
             /\ Len(wouts) = loc.i
             /\ loc.time = loc.i
             /\ loc.i = 0 => loc.position = 0
             /\ (loc.position + loc.i) % 2 = 0
             /\ loc.position <= loc.i
             /\ 0 - loc.i <= loc.position)
    /\ [][WalkStep("main_dat") =>
             /\ OneDraw
             /\ loc'.i = loc.i + 1
             /\ loc'.position - loc.position =
                    IF AboveHalf(Last(wouts')) THEN 1 ELSE 0 - 1]_vars

C22_Witness ==
    /\ prog = "main_dat"
    /\ pc = "step"
    /\ wouts = <<Hex(<<\h80, \h00, \h00, \h00>>), Hex(<<\h80, \h00, \h00, \h01>>),
                 Hex(<<\h7f, \hff, \hff, \hff>>)>>
    /\ loc.position = 0 - 1
    /\ loc.i = 3
    /\ loc.run = 1

====
